---- MODULE Spec2Model ----
(***************************************************************************)
(* CityRetail ETL: the load / reconciliation engine.                       *)
(*                                                                         *)
(* The model follows src/src/main.py (entry point and run_etl),            *)
(* src/src/incremental_etl.py (incremental run), src/src/load_to_postgres  *)
(* .py (full load), src/src/clean_data.py (transforms and snapshot save)   *)
(* and src/src/load_raw_data.py (raw loader).                              *)
(*                                                                         *)
(* A raw row is a record [key, val]: key is the table's primary key        *)
(* (productid, storeid, dateid, salesid) and val stands for its other      *)
(* columns (for stores the raw city, for calendar the date string, for     *)
(* sales the dateid column, which the extracts of the model hold as        *)
(* integers so that astype(int) leaves them as they are).                  *)
(***************************************************************************)
EXTENDS Integers, Sequences, FiniteSets, TLC

\* ---------------------------------------------------------------- bounds
MaxKey == 2        \* key values are 1..MaxKey
MaxRuns == 2       \* entry-point invocations in one behaviour
MaxFaults == 1     \* injected failures (database, missing raw file) in one behaviour
MaxRows == 2       \* rows of a raw table handed to a transform on its own
MaxDateCode == 3   \* date-string codes are 0..MaxDateCode

Keys == 1..MaxKey
\* Payload codes of a raw row: two versions of the non-key columns. As a raw
\* city, 0 is in the lookup and 1 is not; as a date string, 0 does not parse
\* and 1 is a Saturday.
Vals == {0, 1}
NULL == 0 - 1      \* NaN / NaT / None of pandas, NULL of the warehouse

\* ---------------------------------------------------------------- tables
Tables == {"products", "stores", "calendar", "sales"}
RawNames == {"calendar", "cities_lookup", "products", "sales", "stores"}

\* table_map of run_load and the table names of the incremental run.
WhTable(t) ==
    CASE t = "products" -> "dimproduct"
      [] t = "stores" -> "dimstore"
      [] t = "calendar" -> "dimdate"
      [] t = "sales" -> "factsales"

\* The raw files one table's step of a run reads (raw[...] subscripts).
Needs(t) == IF t = "stores" THEN {"stores", "cities_lookup"} ELSE {t}

\* ------------------------------------------------------------- sequences
RECURSIVE SelectRows(_, _)
\* The rows of seq whose key is in keep, in order.
SelectRows(seq, keep) ==
    IF seq = <<>> THEN <<>>
    ELSE IF Head(seq).key \in keep
         THEN <<Head(seq)>> \o SelectRows(Tail(seq), keep)
         ELSE SelectRows(Tail(seq), keep)

KeysOfSet(rows) == {r.key : r \in rows}
RowsOf(seq) == {seq[i] : i \in 1..Len(seq)}
IsPrefix(s, t) == Len(s) <= Len(t) /\ \A i \in 1..Len(s) : s[i] = t[i]
HasDuplicateKeys(seq) == \E i, j \in 1..Len(seq) : i < j /\ seq[i].key = seq[j].key

\* ------------------------------------------------------------ transforms
\* DataFrame.merge(how="left") of one store row with the lookup: one output
\* row per matching lookup row, or one row with a null city when none matches.
RECURSIVE MatchesOf(_, _)
MatchesOf(row, lookup) ==
    IF lookup = <<>> THEN <<>>
    ELSE IF Head(lookup).rawcity = row.val
         THEN <<[key |-> row.key, val |-> Head(lookup).standardcity]>>
              \o MatchesOf(row, Tail(lookup))
         ELSE MatchesOf(row, Tail(lookup))

RECURSIVE standardize_city_names(_, _)
standardize_city_names(stores, lookup) ==
    IF stores = <<>> THEN <<>>
    ELSE LET m == MatchesOf(Head(stores), lookup)
         IN  (IF m = <<>> THEN <<[key |-> Head(stores).key, val |-> NULL]>> ELSE m)
             \o standardize_city_names(Tail(stores), lookup)

\* pd.to_datetime(errors="coerce"): date-string code 0 is an unparsable
\* string (NaT); code v > 0 is the day 2024-01-(5+v), held as the number of
\* days since Monday 2024-01-01.
ParseDate(v) == IF v = 0 THEN NULL ELSE v + 4
\* .dt.isocalendar().week: <NA> for NaT.
WeekNumber(d) == IF d = NULL THEN NULL ELSE (d \div 7) + 1
\* .dt.weekday >= 5: the weekday of NaT is NaN, and NaN >= 5 is False.
IsWeekend(d) == IF d = NULL THEN FALSE ELSE (d % 7) >= 5

parse_calendar_dates(calendar) ==
    [i \in 1..Len(calendar) |->
        LET d == ParseDate(calendar[i].val)
        IN  [key |-> calendar[i].key, val |-> d,
             weeknumber |-> WeekNumber(d), isweekend |-> IsWeekend(d)]]

\* ---------------------------------------------------------- extracts
\* A raw extract of n rows, keys 1..n, every payload at version v.
Extract(n, v) == [i \in 1..n |-> [key |-> i, val |-> v]]
\* cities_lookup.csv: city code 0 has a standard name, the others have none.
CitiesLookup == <<[rawcity |-> 0, standardcity |-> 10]>>

VARIABLES
    raw,            \* raw files: table name -> rows (of the files present)
    rawPresent,     \* the raw files that exist and parse
    cleaned,        \* cleaned snapshot files: table -> rows
    cleanedExists,  \* the snapshot files that exist
    wh,             \* warehouse, committed: table -> set of rows (unique keys)
    tx,             \* warehouse as the open incremental transaction sees it
    pc,             \* position of the running entry point
    mode,           \* "incremental" | "full" | "none"
    force,          \* --force given (kept while the run can still read it)
    step,           \* index of the table in progress
    issued,         \* commands issued in this run, in order: [op, table]
    existing,       \* existing_ids fetched per table in this run
    batch,          \* rows handed to insert_upsert per table in this run
    result,         \* how the run ended
    whStart,        \* committed warehouse when the run started
    cleanedStart,   \* snapshots (rows) when the run started
    existsStart,    \* snapshot files existing when the run started
    preprocessed,   \* this run executed save_cleaned_dataframes
    failedTables,   \* tables whose upsert / full-mode load raised in this run
    maintFailed,    \* number of the maintenance script that raised in this run (0: none)
    lastOk,         \* previous run: incremental, committed, raw unchanged since
    repeat,         \* this run is incremental and started with lastOk
    runs,           \* entry-point invocations so far
    faults,         \* injected failures so far
    credsOk,        \* DB_HOST, DB_PORT, DB_NAME, DB_USER, DB_PASS are all set for this run
    detect,         \* should_use_incremental in this run: "skipped" (--incremental
                    \* given) | "ok" | "failed" | "none" (no run of main.py, or
                    \* the run is past the choice of its branch)
    io,             \* kinds of I/O this run has performed so far
    attempt,        \* wait_for_postgres: connection attempts made in this call
    waits,          \* wait_for_postgres: the sleeps performed in this call, in order
    viewsCommitted  \* the effects of this run's maintenance scripts are durable

vars == <<raw, rawPresent, cleaned, cleanedExists, wh, tx, pc, mode, force, step,
          issued, existing, batch, result, whStart, cleanedStart, existsStart,
          preprocessed, failedTables, maintFailed, lastOk, repeat, runs, faults,
          credsOk, detect, io, attempt, waits, viewsCommitted>>

data == <<raw, rawPresent, cleaned, cleanedExists, wh>>
history == <<issued, existing, batch, result, whStart, cleanedStart, existsStart,
             preprocessed, failedTables, maintFailed, repeat>>
\* wait_for_postgres's locals, which no other step of a run touches.
waiting == <<attempt, waits>>

Cmd(op, t) == [op |-> op, table |-> t]
NoRows == [t \in Tables |-> <<>>]
NoKeys == [t \in Tables |-> {}]

\* ------------------------------------------------------------ raw loader
\* file_map, in the order the loop of load_raw_datasets goes through it.
file_map == <<"calendar", "cities_lookup", "products", "sales", "stores">>

\* A faulty loader_except_raises: the handlers log and re-raise.
loader_except_reraises(failed) == failed

\* The except clauses of the loop (FileNotFoundError, ParserError, Exception):
\* each only logs.
loader_except_raises(failed) == FALSE

\* The loop of load_raw_datasets from entry i of file_map on: pd.read_csv of a
\* file that is missing or does not parse raises, and the handlers decide
\* whether the loop goes on. got: the names in dataframes so far; tried: the
\* names whose read was attempted so far.
RECURSIVE LoadFrom(_, _, _)
LoadFrom(i, got, tried) ==
    IF i > Len(file_map) THEN [raised |-> FALSE, loaded |-> got, attempted |-> tried]
    ELSE LET name == file_map[i]
         IN  IF name \in rawPresent
             THEN LoadFrom(i + 1, got \cup {name}, Append(tried, name))
             ELSE IF loader_except_raises(TRUE)
                  THEN [raised |-> TRUE, loaded |-> got, attempted |-> Append(tried, name)]
                  ELSE LoadFrom(i + 1, got, Append(tried, name))

\* One call of load_raw_datasets on the raw directory as it is.
RawLoad == LoadFrom(1, {}, <<>>)

\* load_raw_datasets: the tables that could be read; a failed one is absent.
load_raw_datasets == [n \in RawLoad.loaded |-> raw[n]]

\* The cleaned table of t as both modes compute it from the loaded raw data.
CleanTable(t, loaded) ==
    CASE t = "stores" -> standardize_city_names(loaded["stores"], loaded["cities_lookup"])
      [] t = "calendar" -> parse_calendar_dates(loaded["calendar"])
      [] OTHER -> loaded[t]

\* Nothing cleaned, nothing loaded, no run started.
Fresh ==
    /\ rawPresent = RawNames
    /\ cleaned = NoRows
    /\ cleanedExists = {}
    /\ wh = [t \in Tables |-> {}]
    /\ tx = [t \in Tables |-> {}]
    /\ pc = "idle"
    /\ mode = "none"
    /\ force = FALSE
    /\ step = 0
    /\ issued = <<>>
    /\ existing = NoKeys
    /\ batch = NoRows
    /\ result = "none"
    /\ whStart = wh
    /\ cleanedStart = cleaned
    /\ existsStart = cleanedExists
    /\ preprocessed = FALSE
    /\ failedTables = {}
    /\ maintFailed = 0
    /\ lastOk = FALSE
    /\ repeat = FALSE
    /\ runs = 0
    /\ faults = 0
    /\ credsOk = TRUE
    /\ detect = "none"
    /\ io = {}
    /\ attempt = 0
    /\ waits = <<>>
    /\ viewsCommitted = FALSE

Init ==
    /\ \E n \in 0..MaxKey, v \in Vals :
          raw = [x \in RawNames |-> IF x = "cities_lookup" THEN CitiesLookup
                                    ELSE Extract(n, v)]
    /\ Fresh

Idle == pc \in {"idle", "done", "aborted"}

\* --------------------------------------------------------- entry point
\* A faulty should_use_incremental: count >= 0 instead of count > 0.
should_use_incremental_any(detectFails) ==
    IF detectFails THEN FALSE ELSE Cardinality(wh["products"]) >= 0

\* should_use_incremental: COUNT(*) of dimproduct > 0; any failure (a missing
\* credential, a refused connection, a missing table) gives False.
should_use_incremental(detectFails) ==
    IF detectFails THEN FALSE ELSE Cardinality(wh["products"]) > 0

\* __main__: --incremental forces incremental, otherwise the mode is detected.
SelectMode(incFlag, detectFails) ==
    IF incFlag THEN "incremental"
    ELSE IF should_use_incremental(detectFails) THEN "incremental" ELSE "full"

\* python -m src.main [--force] [--incremental], with the credentials set
\* (env) or one of them missing; detectFails: the detection query raises.
Main(f, incFlag, detectFails, env) ==
    /\ Idle
    /\ runs < MaxRuns
    /\ detectFails => (~incFlag /\ env)
    /\ (detectFails \/ ~env) => faults < MaxFaults
    /\ runs' = runs + 1
    /\ faults' = IF detectFails \/ ~env THEN faults + 1 ELSE faults
    /\ force' = f
    /\ credsOk' = env
    \* os.environ[...] raises KeyError inside should_use_incremental's try.
    /\ mode' = SelectMode(incFlag, detectFails \/ ~env)
    /\ detect' = IF incFlag THEN "skipped"
                 ELSE IF detectFails \/ ~env THEN "failed" ELSE "ok"
    /\ io' = IF ~incFlag /\ env THEN {"connect"} ELSE {}
    /\ pc' = IF mode' = "incremental" THEN "inc_connect" ELSE "full_prep"
    /\ step' = 0
    /\ issued' = <<>>
    /\ existing' = NoKeys
    /\ batch' = NoRows
    /\ result' = "none"
    /\ whStart' = wh
    /\ cleanedStart' = cleaned
    /\ existsStart' = cleanedExists
    /\ preprocessed' = FALSE
    /\ failedTables' = {}
    /\ maintFailed' = 0
    /\ repeat' = (mode' = "incremental" /\ lastOk)
    /\ lastOk' = FALSE
    /\ tx' = wh
    /\ attempt' = 0
    /\ waits' = <<>>
    /\ viewsCommitted' = FALSE
    /\ UNCHANGED data

\* python -m src.load_to_postgres: run_load on its own, on the snapshot files
\* as they are and whatever the warehouse holds.
MainLoad(env) ==
    /\ Idle
    /\ runs < MaxRuns
    /\ ~env => faults < MaxFaults
    /\ runs' = runs + 1
    /\ faults' = IF env THEN faults ELSE faults + 1
    /\ force' = FALSE
    /\ credsOk' = env
    /\ mode' = "full"
    /\ detect' = "none"
    /\ io' = {}
    /\ pc' = "full_connect"
    /\ step' = 0
    /\ issued' = <<>>
    /\ existing' = NoKeys
    /\ batch' = NoRows
    /\ result' = "none"
    /\ whStart' = wh
    /\ cleanedStart' = cleaned
    /\ existsStart' = cleanedExists
    /\ preprocessed' = FALSE
    /\ failedTables' = {}
    /\ maintFailed' = 0
    /\ repeat' = FALSE
    /\ lastOk' = FALSE
    /\ tx' = wh
    /\ attempt' = 0
    /\ waits' = <<>>
    /\ viewsCommitted' = FALSE
    /\ UNCHANGED data

\* ------------------------------------------------------ incremental run
\* A faulty IncrementalOrder: the fact section is moved before the date dimension.
IncrementalOrderFactEarly == <<"products", "stores", "sales", "calendar">>

\* The order of the four table sections of run_incremental_clean_and_load_all.
IncrementalOrder == <<"products", "stores", "calendar", "sales">>

\* A faulty fetch_existing_ids: the keys are not read (an empty result).
fetch_existing_ids_none(table) == {}

\* fetch_existing_ids: SELECT key FROM table, on the run's own connection.
fetch_existing_ids(table) == KeysOfSet(table)

\* A faulty filter_new_rows: the negation is lost, df[df[id].isin(existing_ids)].
filter_new_rows_kept(df, existing_ids) == SelectRows(df, existing_ids)

\* filter_new_rows: df[~df[id_column].isin(existing_ids)]
filter_new_rows(df, existing_ids) == SelectRows(df, Keys \ existing_ids)

\* A faulty AppendCsv: mode='w', the file is replaced by the new rows.
AppendCsvOverwrites(file, rows) == rows

\* to_csv(path, mode='a', header=not exists): the rows go after those on file.
AppendCsv(file, rows) == file \o rows

\* A faulty Upsert: the table is emptied before the records are inserted.
UpsertReplaces(table, records) == {records[i] : i \in 1..Len(records)}

\* A faulty Upsert: execute instead of executemany, only the first record is sent.
UpsertFirstOnly(table, records) ==
    IF records = <<>> THEN table
    ELSE {r \in table : r.key # Head(records).key} \cup {Head(records)}

\* INSERT ... ON CONFLICT (key) DO UPDATE SET every other column, row by row.
RECURSIVE Upsert(_, _)
Upsert(table, records) ==
    IF records = <<>> THEN table
    ELSE Upsert({r \in table : r.key # Head(records).key} \cup {Head(records)},
                Tail(records))

\* A faulty insert_upsert_raises: the except clause only logs.
insert_upsert_swallows(failed) == FALSE

\* insert_upsert's except clause: log, then raise (the run ends there).
insert_upsert_raises(failed) == failed

\* A faulty Autocommit: conn.autocommit = True, every statement is durable at once.
AutocommitOn == TRUE

\* psycopg2.connect leaves autocommit off: nothing is durable before commit().
Autocommit == FALSE

\* wait_for_postgres's defaults.
retries == 5
delay == 2

\* b ** e
RECURSIVE Pow(_, _)
Pow(b, e) == IF e = 0 THEN 1 ELSE b * Pow(b, e - 1)

\* wait = delay ** attempt
Backoff(k) == Pow(delay, k)

\* A faulty LastAttempt: range(1, retries + 2), one attempt too many.
LastAttemptOffByOne(k) == k = retries + 1

\* for attempt in range(1, retries + 1): attempt k is the last one.
LastAttempt(k) == k = retries

\* One iteration of wait_for_postgres's loop: connect; on success return
\* (the run goes on at ready), on OperationalError sleep delay ** attempt,
\* and after the last iteration raise.  The database being down at the first
\* attempt is the fault; it may stay down for the attempts that follow.
wait_for_postgres(up, ready) ==
    /\ (~up /\ attempt = 0) => faults < MaxFaults
    /\ faults' = IF ~up /\ attempt = 0 THEN faults + 1 ELSE faults
    /\ attempt' = attempt + 1
    /\ io' = io \cup {"connect"}
    /\ IF up
       THEN /\ waits' = waits
            /\ pc' = ready
            /\ result' = result
       ELSE /\ waits' = Append(waits, Backoff(attempt'))
            /\ IF LastAttempt(attempt')
               THEN pc' = "aborted" /\ result' = "unavailable"
               ELSE pc' = pc /\ result' = result

\* os.environ["DB_..."] with a variable missing: KeyError, out of the run.
ConfigError ==
    /\ pc' = "aborted"
    /\ result' = "config_error"
    /\ UNCHANGED <<faults, io, attempt, waits>>

\* The credentials, wait_for_postgres, then psycopg2.connect and load_raw_datasets.
IncConnect(up) ==
    /\ pc = "inc_connect"
    /\ IF ~credsOk
       THEN up /\ ConfigError /\ step' = step
       ELSE /\ wait_for_postgres(up, "inc_table")
            /\ step' = IF up THEN 1 ELSE step
    /\ tx' = wh
    \* run_etl has taken the incremental branch: force_preprocessing and the
    \* outcome of the detection are not read again.
    /\ force' = FALSE
    /\ detect' = "none"
    /\ UNCHANGED <<data, mode, issued, existing, batch, whStart, cleanedStart,
                   existsStart, preprocessed, failedTables, maintFailed, lastOk, repeat,
                   runs, credsOk, viewsCommitted>>

\* One table section: raw[...] lookup and cleaning, fetch_existing_ids,
\* filter_new_rows, and for a non-empty delta to_csv(mode='a') then insert_upsert.
IncTable(fails) ==
    /\ pc = "inc_table"
    /\ LET t == IncrementalOrder[step]
           next == IF step = Len(IncrementalOrder) THEN "inc_commit" ELSE "inc_table"
       IN  IF ~(Needs(t) \subseteq rawPresent)
           THEN \* KeyError on raw[...]
                /\ ~fails
                /\ pc' = "aborted"
                /\ result' = "missing_raw"
                /\ UNCHANGED <<cleaned, cleanedExists, wh, tx, step, issued, existing,
                               batch, faults>>
           ELSE LET T == CleanTable(t, load_raw_datasets)
                    ids == fetch_existing_ids(tx[t])
                    delta == filter_new_rows(T, ids)
                    raised == insert_upsert_raises(fails)
                IN  /\ fails => (delta # <<>> /\ faults < MaxFaults)
                    /\ faults' = IF fails THEN faults + 1 ELSE faults
                    /\ existing' = [existing EXCEPT ![t] = ids]
                    /\ batch' = [batch EXCEPT ![t] = delta]
                    /\ IF delta = <<>>
                       THEN /\ issued' = Append(issued, Cmd("select", t))
                            /\ UNCHANGED <<cleaned, cleanedExists, tx>>
                       ELSE /\ issued' = issued \o <<Cmd("select", t), Cmd("append", t),
                                                     Cmd("upsert", t)>>
                            /\ cleaned' = [cleaned EXCEPT ![t] = AppendCsv(@, delta)]
                            /\ cleanedExists' = cleanedExists \cup {t}
                            /\ tx' = IF fails THEN tx
                                     ELSE [tx EXCEPT ![t] = Upsert(@, delta)]
                    /\ wh' = IF Autocommit THEN tx' ELSE wh
                    /\ IF raised
                       THEN pc' = "aborted" /\ result' = "upsert_failed" /\ step' = step
                       ELSE /\ pc' = next
                            /\ result' = result
                            /\ step' = IF next = "inc_table" THEN step + 1 ELSE step
    /\ failedTables' = IF fails THEN failedTables \cup {IncrementalOrder[step]}
                       ELSE failedTables
    /\ io' = io \cup {"read_raw"} \cup (IF cleaned' # cleaned \/ cleanedExists' # cleanedExists
                                        THEN {"write_snapshot"} ELSE {})
    /\ attempt' = 0
    /\ waits' = <<>>
    /\ UNCHANGED <<raw, rawPresent, mode, force, whStart, cleanedStart, existsStart,
                   preprocessed, maintFailed, lastOk, repeat, runs, credsOk, viewsCommitted, detect>>

\* conn.commit(): the one commit of the incremental run.
IncCommit ==
    /\ pc = "inc_commit"
    /\ wh' = tx
    /\ issued' = Append(issued, Cmd("commit", "all"))
    /\ pc' = "inc_maint"
    /\ UNCHANGED <<raw, rawPresent, cleaned, cleanedExists, tx, mode, force, step,
                   existing, batch, result, whStart, cleanedStart, existsStart,
                   preprocessed, failedTables, maintFailed, lastOk, repeat, runs, faults,
                   credsOk, viewsCommitted, detect, io, waiting>>

\* The scripts a maintenance block attempts when script number failAt raises
\* (0: none raises): kpi_views.sql first, kpi_indexes.sql only after it.
ScriptsAttempted(failAt) ==
    IF failAt = 1 THEN <<Cmd("script", "kpi_views.sql")>>
    ELSE <<Cmd("script", "kpi_views.sql"), Cmd("script", "kpi_indexes.sql")>>

\* A faulty maintenance_raises: the except clause re-raises.
maintenance_reraises(failAt) == failAt # 0

\* The except clause around the scripts: logger.exception, and no raise.
maintenance_raises(failAt) == FALSE

\* conn.close() with a transaction open: the transaction is discarded.
CloseCommits == FALSE

\* "with conn:" left without an exception: conn.commit().
WithConnCommits == TRUE

\* try: execute_sql_file x2 / except: log; then cursor.close(), conn.close().
\* The scripts run on the run's connection after conn.commit(), in a new
\* transaction that nothing commits before the connection is closed.
IncMaint(failAt) ==
    /\ pc = "inc_maint"
    /\ failAt # 0 => faults < MaxFaults
    /\ faults' = IF failAt # 0 THEN faults + 1 ELSE faults
    /\ issued' = issued \o ScriptsAttempted(failAt)
    /\ IF maintenance_raises(failAt)
       THEN pc' = "aborted" /\ result' = "maintenance_failed" /\ lastOk' = lastOk
       ELSE pc' = "done" /\ result' = "ok" /\ lastOk' = TRUE
    /\ maintFailed' = failAt
    /\ viewsCommitted' = (failAt = 0 /\ (Autocommit \/ CloseCommits))
    /\ UNCHANGED <<data, tx, mode, force, step, existing, batch, whStart, cleanedStart,
                   existsStart, preprocessed, failedTables, repeat, runs,
                   credsOk, detect, io, waiting>>

\* ------------------------------------------------------------ full run
\* A faulty cleaned_files_exist: any() instead of all().
cleaned_files_exist_any == {"calendar", "products", "sales", "stores"} \cap cleanedExists # {}

\* cleaned_files_exist: all four expected snapshot files are on disk.
cleaned_files_exist == {"calendar", "products", "sales", "stores"} \subseteq cleanedExists

\* df.to_csv(output_path, index=False): the file is written anew with df's rows.
WriteCsv(file, rows) == rows

\* The order in which save_cleaned_dataframes writes the cleaned_data dict.
SaveOrder == <<"calendar", "products", "sales", "stores">>

\* run_etl, full branch: skip, or load raw, clean and save_cleaned_dataframes.
FullPrep ==
    /\ pc = "full_prep"
    /\ IF ~force /\ cleaned_files_exist
       THEN /\ pc' = "full_connect"
            /\ UNCHANGED <<cleaned, cleanedExists, issued, result, preprocessed, io>>
       ELSE IF ~(RawNames \subseteq rawPresent)
       THEN \* KeyError on raw_data[...]
            /\ pc' = "aborted"
            /\ result' = "missing_raw"
            /\ io' = io \cup {"read_raw"}
            /\ UNCHANGED <<cleaned, cleanedExists, issued, preprocessed>>
       ELSE /\ pc' = "full_connect"
            /\ io' = io \cup {"read_raw", "write_snapshot"}
            /\ cleaned' = [t \in Tables |->
                              WriteCsv(cleaned[t], CleanTable(t, load_raw_datasets))]
            /\ cleanedExists' = cleanedExists \cup Tables
            /\ issued' = issued \o [i \in 1..Len(SaveOrder) |-> Cmd("write", SaveOrder[i])]
            /\ preprocessed' = TRUE
            /\ result' = result
    /\ UNCHANGED <<raw, rawPresent, wh, tx, mode, force, step, existing, batch, whStart,
                   cleanedStart, existsStart, failedTables, maintFailed, lastOk, repeat,
                   runs, faults, credsOk, viewsCommitted, detect, waiting>>

\* run_load: credentials, then wait_for_postgres.
FullConnect(up) ==
    /\ pc = "full_connect"
    /\ IF ~credsOk
       THEN up /\ ConfigError
       ELSE wait_for_postgres(up, "full_clear")
    /\ UNCHANGED <<data, tx, mode, force, step, issued, existing, batch, whStart,
                   cleanedStart, existsStart, preprocessed, failedTables, maintFailed,
                   lastOk, repeat, runs, credsOk, viewsCommitted, detect>>

\* clear_table("factsales"): DELETE FROM factsales and commit, on its own
\* connection; an error propagates out of run_load.
FullClear(fails) ==
    /\ pc = "full_clear"
    /\ fails => faults < MaxFaults
    /\ faults' = IF fails THEN faults + 1 ELSE faults
    /\ issued' = Append(issued, Cmd("delete", "sales"))
    /\ IF fails
       THEN pc' = "aborted" /\ result' = "clear_failed" /\ wh' = wh /\ step' = step
       ELSE /\ pc' = "full_load"
            /\ result' = result
            /\ wh' = [wh EXCEPT !["sales"] = {}]
            /\ step' = 1
    /\ attempt' = 0
    /\ waits' = <<>>
    /\ UNCHANGED <<raw, rawPresent, cleaned, cleanedExists, tx, mode, force, existing,
                   batch, whStart, cleanedStart, existsStart, preprocessed, failedTables,
                   maintFailed, lastOk, repeat, runs, credsOk, viewsCommitted, detect, io>>

\* A faulty FullLoadOrder: the fact table is loaded before the date dimension.
FullLoadOrderFactEarly == <<"products", "stores", "sales", "calendar">>

\* The order of the timed_load calls of run_load: dimensions, then the fact.
FullLoadOrder == <<"products", "stores", "calendar", "sales">>

\* timed_load's except clause: logger.exception, and no raise.
timed_load_raises(failed) == FALSE

\* The commands load_csv_to_table issues for a snapshot file that could be
\* read: DELETE, then executemany(INSERT) when there is a record to insert.
LoadCommands(t, rows) ==
    IF rows = <<>> THEN <<Cmd("delete", t)>> ELSE <<Cmd("delete", t), Cmd("insert", t)>>

\* A faulty RolledBack: the failed transaction's statements stay applied.
RollbackMissing(before, during) == during

\* "with conn:" left by an exception: conn.rollback(), the table is as it was
\* before the transaction, whatever the transaction had done to it.
RolledBack(before, during) == before

\* timed_load(filename, table): connect, "with conn" (commit on success,
\* rollback on an exception), load_csv_to_table inside it.
FullLoad(fails) ==
    /\ pc = "full_load"
    /\ fails => (faults < MaxFaults /\ FullLoadOrder[step] \in cleanedExists)
    /\ faults' = IF fails THEN faults + 1 ELSE faults
    /\ LET t == FullLoadOrder[step]
           rows == cleaned[t]
           unreadable == t \notin cleanedExists       \* pd.read_csv raises
           failed == unreadable \/ HasDuplicateKeys(rows) \/ fails
           next == IF step = Len(FullLoadOrder) THEN "full_maint" ELSE "full_load"
       IN  /\ issued' = IF unreadable THEN issued ELSE issued \o LoadCommands(t, rows)
           /\ wh' = IF unreadable THEN wh
                    ELSE IF failed THEN [wh EXCEPT ![t] = RolledBack(@, {})]
                    ELSE [wh EXCEPT ![t] = RowsOf(rows)]
           /\ failedTables' = IF failed THEN failedTables \cup {t} ELSE failedTables
           /\ IF timed_load_raises(failed)
              THEN pc' = "aborted" /\ result' = "load_failed" /\ step' = step
              ELSE /\ pc' = next
                   /\ result' = result
                   /\ step' = IF next = "full_load" THEN step + 1 ELSE step
    /\ UNCHANGED <<raw, rawPresent, cleaned, cleanedExists, tx, mode, force, existing,
                   batch, whStart, cleanedStart, existsStart, preprocessed, maintFailed,
                   lastOk, repeat, runs, credsOk, viewsCommitted, detect, io, waiting>>

\* try: connect, "with conn": execute_sql_file x2 / except: log.
FullMaint(failAt) ==
    /\ pc = "full_maint"
    /\ failAt # 0 => faults < MaxFaults
    /\ faults' = IF failAt # 0 THEN faults + 1 ELSE faults
    /\ issued' = issued \o ScriptsAttempted(failAt)
    /\ IF maintenance_raises(failAt)
       THEN pc' = "aborted" /\ result' = "maintenance_failed"
       ELSE pc' = "done" /\ result' = "ok"
    /\ maintFailed' = failAt
    /\ viewsCommitted' = (failAt = 0 /\ WithConnCommits)
    /\ UNCHANGED <<data, tx, mode, force, step, existing, batch, whStart, cleanedStart,
                   existsStart, preprocessed, failedTables, lastOk, repeat, runs,
                   credsOk, detect, io, waiting>>

\* ---------------------------------------------------------- environment
\* Between runs nothing of the last run is kept but the files and the warehouse.
Forget ==
    /\ pc' = "idle"
    /\ mode' = "none"
    /\ force' = FALSE
    /\ step' = 0
    /\ issued' = <<>>
    /\ existing' = NoKeys
    /\ batch' = NoRows
    /\ result' = "none"
    /\ whStart' = wh
    /\ cleanedStart' = cleaned
    /\ existsStart' = cleanedExists
    /\ preprocessed' = FALSE
    /\ failedTables' = {}
    /\ maintFailed' = 0
    /\ repeat' = FALSE
    /\ lastOk' = FALSE
    /\ tx' = wh
    /\ credsOk' = TRUE
    /\ detect' = "none"
    /\ io' = {}
    /\ attempt' = 0
    /\ waits' = <<>>
    /\ viewsCommitted' = FALSE

\* A new extract is delivered to the raw directory (all five files).
NewExtract(n, v) ==
    /\ Idle
    /\ runs < MaxRuns
    /\ raw' = [x \in RawNames |-> IF x = "cities_lookup" THEN CitiesLookup
                                  ELSE Extract(n, v)]
    /\ rawPresent' = RawNames
    /\ raw' # raw \/ rawPresent' # rawPresent
    /\ Forget
    /\ UNCHANGED <<cleaned, cleanedExists, wh, runs, faults>>

\* A raw file goes missing (or can no longer be parsed).
RemoveRaw(x) ==
    /\ Idle
    /\ runs < MaxRuns
    /\ x \in rawPresent
    /\ faults < MaxFaults
    /\ faults' = faults + 1
    /\ rawPresent' = rawPresent \ {x}
    /\ Forget
    /\ UNCHANGED <<raw, cleaned, cleanedExists, wh, runs>>

Next ==
    \/ \E f \in BOOLEAN, incFlag \in BOOLEAN, detectFails \in BOOLEAN, env \in BOOLEAN :
          Main(f, incFlag, detectFails, env)
    \/ \E env \in BOOLEAN : MainLoad(env)
    \/ \E up \in BOOLEAN : IncConnect(up)
    \/ \E fails \in BOOLEAN : IncTable(fails)
    \/ IncCommit
    \/ \E failAt \in 0..2 : IncMaint(failAt)
    \/ FullPrep
    \/ \E up \in BOOLEAN : FullConnect(up)
    \/ \E fails \in BOOLEAN : FullClear(fails)
    \/ \E fails \in BOOLEAN : FullLoad(fails)
    \/ \E failAt \in 0..2 : FullMaint(failAt)
    \/ \E n \in 0..MaxKey, v \in Vals : NewExtract(n, v)
    \/ \E x \in RawNames : RemoveRaw(x)

Spec == Init /\ [][Next]_vars

\* ------------------------------------------------- the transforms alone
\* The two transforms applied to arbitrary raw tables: stores with repeated
\* store ids and cities, lookups with repeated or missing raw cities,
\* calendars with unparsable dates.
Cities == {0, 1}
StandardCities == {10, 11}
DateCodes == 0..MaxDateCode
StoreRows == [key : Keys, val : Cities]
LookupRows == [rawcity : Cities, standardcity : StandardCities]
CalendarRows == [key : Keys, val : DateCodes]
TablesOf(rows) == UNION {[1..n -> rows] : n \in 0..MaxRows}

\* Raw files holding either a stores table and a lookup, or a calendar.
InitClean ==
    /\ \E s \in TablesOf(StoreRows), l \in TablesOf(LookupRows), c \in TablesOf(CalendarRows) :
          /\ c = <<>> \/ (s = <<>> /\ l = <<>>)
          /\ raw = [x \in RawNames |->
                       CASE x = "stores" -> s
                         [] x = "cities_lookup" -> l
                         [] x = "calendar" -> c
                         [] OTHER -> <<>>]
    /\ Fresh

\* stores_clean = standardize_city_names(stores, cities_lookup)
CleanStores ==
    /\ "stores" \notin cleanedExists
    /\ cleaned' = [cleaned EXCEPT !["stores"] =
                       standardize_city_names(raw["stores"], raw["cities_lookup"])]
    /\ cleanedExists' = cleanedExists \cup {"stores"}
    /\ UNCHANGED <<raw, rawPresent, wh, tx, pc, mode, force, step, history, lastOk,
                   runs, faults, credsOk, viewsCommitted, detect, io, waiting>>

\* calendar_clean = parse_calendar_dates(calendar)
CleanCalendar ==
    /\ "calendar" \notin cleanedExists
    /\ cleaned' = [cleaned EXCEPT !["calendar"] = parse_calendar_dates(raw["calendar"])]
    /\ cleanedExists' = cleanedExists \cup {"calendar"}
    /\ UNCHANGED <<raw, rawPresent, wh, tx, pc, mode, force, step, history, lastOk,
                   runs, faults, credsOk, viewsCommitted, detect, io, waiting>>

NextClean == CleanStores \/ CleanCalendar

SpecClean == InitClean /\ [][NextClean]_vars

\* ================================================================ claims
Dims == {"products", "stores", "calendar"}
Incremental == mode = "incremental"
Full == mode = "full"
Ended == pc \in {"done", "aborted"}
\* The tables whose incremental section has run (its SELECT was issued).
Processed == {t \in Tables : \E i \in 1..Len(issued) : issued[i] = Cmd("select", t)}
IssuedAt(c) == {i \in 1..Len(issued) : issued[i] = c}
\* The cleaned input table of t in this run (raw files do not change in a run).
Input(t) == CleanTable(t, load_raw_datasets)
\* The rows a run has appended to the snapshot of t since it started.
Appended(t) == SubSeq(cleaned[t], Len(cleanedStart[t]) + 1, Len(cleaned[t]))

\* C1: in an incremental run, for every table whose section has run, the keys
\* fetched are those of the warehouse table, and the rows handed to the upsert
\* are exactly the rows of the cleaned table whose key is not among them, each
\* once and in the table's order; the upsert is issued iff there is such a row.
C1_DeltaIsExactlyNewRows ==
    Incremental =>
        \A t \in Processed :
            /\ existing[t] = {r.key : r \in whStart[t]}
            /\ RowsOf(batch[t]) = {r \in RowsOf(Input(t)) : r.key \notin existing[t]}
            /\ \A r \in RowsOf(Input(t)) :
                  Cardinality({i \in 1..Len(batch[t]) : batch[t][i] = r})
                    = IF r.key \in existing[t] THEN 0
                      ELSE Cardinality({i \in 1..Len(Input(t)) : Input(t)[i] = r})
            /\ (IssuedAt(Cmd("upsert", t)) # {}) = (batch[t] # <<>>)

\* C1 witness: a section ran whose table held both rows with existing keys
\* (left out) and rows with new keys (handed to the upsert).
C1_Witness ==
    /\ Incremental
    /\ \E t \in Processed :
          /\ batch[t] # <<>>
          /\ Len(batch[t]) < Len(Input(t))
          /\ IssuedAt(Cmd("upsert", t)) # {}

\* C2: an incremental run that directly follows a completed, committed
\* incremental run with the raw input unchanged computes an empty delta for
\* every table it processes, changes no warehouse row (committed or in its
\* transaction), appends nothing to any snapshot, and, unless the warehouse is
\* unreachable or a credential is missing, processes all four tables and ends
\* normally having run the maintenance scripts.
C2_SecondRunIsNoOp ==
    repeat =>
        /\ \A t \in Processed : batch[t] = <<>>
        /\ wh = whStart
        /\ tx = whStart
        /\ cleaned = cleanedStart
        /\ cleanedExists = existsStart
        /\ \A i \in 1..Len(issued) : issued[i].op \notin {"upsert", "append", "delete", "insert"}
        /\ (Ended /\ result \notin {"unavailable", "config_error"}) =>
              /\ pc = "done"
              /\ Processed = Tables
              /\ IssuedAt(Cmd("script", "kpi_views.sql")) # {}
              /\ maintFailed # 1 => IssuedAt(Cmd("script", "kpi_indexes.sql")) # {}

\* C2 witness: such a second run has ended, over a non-empty raw input that
\* the first run loaded.
C2_Witness ==
    /\ repeat
    /\ pc = "done"
    /\ \A t \in Tables : raw[t] # <<>> /\ wh[t] # {}

\* C3: an incremental run leaves every warehouse row that existed before it
\* as it was (in the committed warehouse and in the run's transaction), and
\* the rows it appends to a snapshot or upserts all have keys that were absent
\* from the warehouse table before the run.
C3_ExistingRowsUntouched ==
    Incremental =>
        \A t \in Tables :
            /\ whStart[t] \subseteq wh[t]
            /\ whStart[t] \subseteq tx[t]
            /\ \A r \in RowsOf(Appended(t)) \cup RowsOf(batch[t]) :
                  r.key \notin {x.key : x \in whStart[t]}

\* C3 witness: a completed incremental run whose raw table held a new key and
\* also an existing key with different non-key values.
C3_Witness ==
    /\ Incremental
    /\ pc = "done"
    /\ \E t \in Tables :
          /\ batch[t] # <<>>
          /\ Appended(t) = batch[t]
          /\ \E r \in whStart[t] : \E i \in 1..Len(Input(t)) :
                Input(t)[i].key = r.key /\ Input(t)[i] # r

\* C4: in a full-mode load the clear of the fact table is issued before any
\* DELETE or INSERT of a dimension table, and no INSERT is issued after the
\* INSERT into the fact table.
C4_FullLoadOrder ==
    Full =>
        /\ \A i \in 1..Len(issued) :
              (issued[i].op \in {"delete", "insert"} /\ issued[i].table \in Dims)
                 => \E j \in 1..(i - 1) : issued[j] = Cmd("delete", "sales")
        /\ \A i \in IssuedAt(Cmd("insert", "sales")) :
              \A j \in (i + 1)..Len(issued) : issued[j].op # "insert"

\* C4 witness: a full-mode load has ended after inserting into all four tables.
C4_Witness ==
    /\ Full
    /\ pc = "done"
    /\ \A t \in Tables : IssuedAt(Cmd("insert", t)) # {}

\* The place of a command's table in the order the specification fixes (the
\* commit and the maintenance scripts come after the four tables).
SectionRank(t) ==
    CASE t = "products" -> 1 [] t = "stores" -> 2 [] t = "calendar" -> 3
      [] t = "sales" -> 4 [] OTHER -> 5

\* C5: in an incremental run the sections run in the order products, stores,
\* calendar, sales: whenever a command of the sales section (SELECT, snapshot
\* append, upsert) has been issued, the SELECT of every dimension and the
\* upsert of every dimension with a non-empty delta were issued before it, no
\* command of a dimension is issued after it, and the commands of the four
\* sections appear in that order.
C5_IncrementalOrder ==
    Incremental =>
        /\ \A i \in 1..Len(issued) :
              issued[i].table = "sales" =>
                 /\ \A d \in Dims :
                       /\ \E j \in 1..(i - 1) : issued[j] = Cmd("select", d)
                       /\ batch[d] # <<>> => \E j \in 1..(i - 1) : issued[j] = Cmd("upsert", d)
                 /\ \A j \in (i + 1)..Len(issued) : issued[j].table \notin Dims
        /\ \A i, j \in 1..Len(issued) :
              i < j => SectionRank(issued[i].table) <= SectionRank(issued[j].table)

\* C5 witness: every dimension had new rows and the sales upsert was issued.
C5_Witness ==
    /\ Incremental
    /\ \A t \in Tables : IssuedAt(Cmd("upsert", t)) # {}

\* C6: when the upsert of a table fails in an incremental run, the run is
\* aborted there: the failed upsert is the last command issued, no later table
\* is processed, no commit and no maintenance script is issued, and the
\* committed warehouse is as it was before the run.
C6_UpsertFailureAborts ==
    (Incremental /\ failedTables # {}) =>
        /\ pc = "aborted"
        /\ result = "upsert_failed"
        /\ \E t \in Tables :
              /\ failedTables = {t}
              /\ issued[Len(issued)] = Cmd("upsert", t)
              /\ IssuedAt(Cmd("upsert", t)) = {Len(issued)}
        /\ \A i \in 1..Len(issued) : issued[i].op \notin {"commit", "script"}
        /\ wh = whStart

\* C6 witness: the upsert of the first table failed while later tables had
\* new rows waiting.
C6_Witness ==
    /\ Incremental
    /\ failedTables = {"products"}
    /\ \A t \in Tables : filter_new_rows(Input(t), {r.key : r \in whStart[t]}) # <<>>

\* C7 (the claim as stated): in a full-mode run, once the INSERT of a table
\* load has failed the run is aborted: nothing is issued for a later table, no
\* maintenance script is executed and the run does not end normally.
C7_FullInsertFailureAborts ==
    (Full /\ \E t \in failedTables : IssuedAt(Cmd("insert", t)) # {}) =>
        /\ pc = "aborted"
        /\ \E t \in failedTables : issued[Len(issued)] = Cmd("insert", t)
        /\ \A i \in 1..Len(issued) : issued[i].op # "script"

\* What a completed incremental run makes of warehouse table t: the rows it
\* held at the start, and the rows of the cleaned table with a new key (of
\* several rows with one new key, the last).
ExpectedTable(t) ==
    whStart[t] \cup
    {Input(t)[i] : i \in {k \in 1..Len(Input(t)) :
                             /\ Input(t)[k].key \notin {x.key : x \in whStart[t]}
                             /\ \A j \in (k + 1)..Len(Input(t)) :
                                   Input(t)[j].key # Input(t)[k].key}}

\* C8: at every point of an incremental run, and so wherever it ends, the
\* committed warehouse either equals its pre-run state in all four tables, or
\* the final commit has been issued and every table holds its pre-run rows
\* plus its whole delta.
C8_SingleCommitAtomic ==
    Incremental =>
        \/ wh = whStart
        \/ /\ IssuedAt(Cmd("commit", "all")) # {}
           /\ Processed = Tables
           /\ \A t \in Tables : wh[t] = ExpectedTable(t)

\* C8 witness: an incremental run was aborted after the upsert of an earlier
\* table had gone through in its transaction; the other case, a committed
\* run that changed every table, is C5's witness followed by the commit.
C8_Witness ==
    /\ Incremental
    /\ pc = "aborted"
    /\ \E t \in Tables : IssuedAt(Cmd("upsert", t)) # {} /\ t \notin failedTables
    /\ wh = whStart

\* C8 second witness: a committed incremental run that changed all four tables.
C8_WitnessCommitted ==
    /\ Incremental
    /\ pc = "done"
    /\ \A t \in Tables : wh[t] # whStart[t]

\* C9 (the claim as stated): when an incremental run has ended, normally or
\* aborted, every row it appended to a cleaned snapshot has its key in the
\* corresponding warehouse table.
C9_SnapshotRowsArePersisted ==
    (Incremental /\ Ended) =>
        \A t \in Tables : \A r \in RowsOf(Appended(t)) : r.key \in {x.key : x \in wh[t]}

\* C10 (the claim as stated): whatever the run, a snapshot file that existed
\* when the run started still exists, and the rows it then held are a prefix
\* of the rows it holds now.
C10_SnapshotAppendOnlyAnyRun ==
    \A t \in existsStart :
        t \in cleanedExists /\ IsPrefix(cleanedStart[t], cleaned[t])

\* C10 (amended): in an incremental run, and in a full run that skips
\* preprocessing, a snapshot file that existed when the run started still
\* exists and the rows it then held are a prefix of the rows it holds now; a
\* full run that preprocesses writes every snapshot anew from the raw tables.
C10_SnapshotAppendOnly ==
    /\ ~preprocessed =>
          \A t \in existsStart :
              t \in cleanedExists /\ IsPrefix(cleanedStart[t], cleaned[t])
    /\ preprocessed =>
          /\ Full
          /\ force \/ ~(Tables \subseteq existsStart)
          /\ \A t \in Tables : t \in cleanedExists /\ cleaned[t] = Input(t)

\* C10 witness: an incremental run appended rows to a snapshot that already
\* held rows.
C10_Witness ==
    /\ Incremental
    /\ ~preprocessed
    /\ \E t \in existsStart :
          cleanedStart[t] # <<>> /\ Len(cleaned[t]) > Len(cleanedStart[t])

\* The commands of a run that read or write a warehouse table.
TableCommands ==
    {i \in 1..Len(issued) : issued[i].op \in {"select", "upsert", "delete", "insert"}}

\* C11 (the claim as stated): a run started with a database credential missing
\* has read no raw file, written no cleaned snapshot and attempted no
\* warehouse connection, and when it has ended it ended in the configuration
\* error.
C11_NoIoWithoutCredentials ==
    (~credsOk /\ pc # "idle") =>
        /\ io = {}
        /\ cleaned = cleanedStart
        /\ cleanedExists = existsStart
        /\ Ended => result = "config_error"

\* C12: when the entry point has called the mode detection, the run is
\* incremental exactly when the count query succeeded and the product
\* dimension held at least one row; it is full when the table was empty and
\* when the detection failed, and a failed detection does not end the run.
C12_DetectLoadMode ==
    (pc # "idle" /\ detect \in {"ok", "failed"}) =>
        /\ Incremental <=> (detect = "ok" /\ Cardinality(whStart["products"]) > 0)
        /\ ~Incremental => Full
        /\ detect = "failed" => (Full /\ (pc = "full_prep" => result = "none"))

\* C12 witness: the detection query succeeded on a warehouse whose product
\* dimension held rows, and the run is incremental.
C12_Witness ==
    /\ pc # "idle"
    /\ detect = "ok"
    /\ whStart["products"] # {}
    /\ Incremental

\* C13 (the claim as stated): a run given the incremental flag is incremental,
\* and a run given the force flag without the incremental flag is a full run,
\* whatever the warehouse holds.
C13_FlagsDecideMode ==
    pc # "idle" =>
        /\ detect = "skipped" => Incremental
        /\ (force /\ detect \in {"ok", "failed"}) => Full

\* C14: wait_for_postgres makes at most retries attempts; while it is waiting
\* every attempt so far has failed, it returns at the first successful attempt,
\* and it raises exactly when all retries attempts have failed; after that
\* error the run has read and written no warehouse table.
C14_WaitTerminates ==
    /\ attempt <= retries
    /\ pc \in {"inc_connect", "full_connect"} => (Len(waits) = attempt /\ attempt < retries)
    /\ (pc \in {"inc_table", "full_clear"} /\ attempt > 0) => Len(waits) = attempt - 1
    /\ (result = "unavailable") <=>
          (pc = "aborted" /\ attempt = retries /\ Len(waits) = retries)
    /\ result = "unavailable" =>
          (TableCommands = {} /\ wh = whStart /\ tx = whStart)

\* C14 witness: all retries attempts failed and the run was aborted with the
\* warehouse as it was.
C14_Witness ==
    /\ result = "unavailable"
    /\ attempt = retries
    /\ \E t \in Tables : wh[t] # {}

\* C14 witness of the other outcome: the database came up at a later attempt.
C14_WitnessReady ==
    /\ pc \in {"inc_table", "full_clear"}
    /\ attempt > 1
    /\ attempt < retries

\* C15 (the claim as stated): the k-th sleep of wait_for_postgres lasts
\* delay ** k, and a sleep only ever precedes another attempt, so a call that
\* gives up after retries attempts has slept retries - 1 times.
C15_BackoffOnlyBetweenAttempts ==
    /\ \A k \in 1..Len(waits) : waits[k] = Pow(delay, k)
    /\ Len(waits) <= retries - 1

\* C16: when a maintenance script fails, in either mode, the step ends the
\* run normally and leaves every warehouse table as the load committed it.
C16_MaintenanceFailureSwallowed ==
    [][(pc \in {"inc_maint", "full_maint"} /\ maintFailed' # 0) =>
          (pc' = "done" /\ result' = "ok" /\ wh' = wh)]_vars

\* C16 witness: a run whose load committed rows ended normally with a failed
\* maintenance script and the rows in place.
C16_Witness ==
    /\ maintFailed # 0
    /\ pc = "done"
    /\ \E t \in Tables : wh[t] # whStart[t]

\* C17 (the claim as stated): whatever the stores table and the lookup table,
\* the cleaned stores table has one row per input row, in order, for the same
\* store, its city the standard name of a lookup row for the raw city, or
\* null when the lookup has none.
C17_StoresRowCountPreserved ==
    "stores" \in cleanedExists =>
        LET in == raw["stores"]
            out == cleaned["stores"]
            lookup == raw["cities_lookup"]
        IN  /\ Len(out) = Len(in)
            /\ \A i \in 1..Len(in) :
                  /\ out[i].key = in[i].key
                  /\ LET names == {lookup[j].standardcity :
                                     j \in {k \in 1..Len(lookup) : lookup[k].rawcity = in[i].val}}
                     IN  IF names = {} THEN out[i].val = NULL ELSE out[i].val \in names

\* C18 (the claim as stated): in the cleaned calendar, a row whose date string
\* did not parse has a null date, a null week number and a null weekend flag,
\* and a row whose date parsed has a weekend flag that is true exactly on a
\* Saturday or a Sunday.
C18_CalendarDerivedFields ==
    "calendar" \in cleanedExists =>
        LET in == raw["calendar"]
            out == cleaned["calendar"]
        IN  /\ Len(out) = Len(in)
            /\ \A i \in 1..Len(in) :
                  IF in[i].val = 0
                  THEN /\ out[i].val = NULL
                       /\ out[i].weeknumber = NULL
                       /\ out[i].isweekend \notin BOOLEAN
                  ELSE /\ out[i].val # NULL
                       /\ out[i].isweekend \in BOOLEAN
                       /\ out[i].isweekend <=> ((in[i].val + 4) % 7 \in {5, 6})

\* C19 (the claim as stated): when a full-mode load has returned normally,
\* every snapshot file exists and each warehouse table holds exactly the rows
\* of its snapshot.
C19_FullLoadReplaces ==
    (Full /\ pc = "done") =>
        \A t \in Tables : t \in cleanedExists /\ wh[t] = RowsOf(cleaned[t])

\* C20 (the claim as stated): in a full-mode run, a table whose load failed
\* holds the rows it held when the run started.
C20_FailedLoadKeepsTable ==
    Full => \A t \in failedTables : wh[t] = whStart[t]

\* C20 (amended): in a full-mode run, a dimension table whose load failed
\* holds the rows it held when the run started, the delete of that load being
\* rolled back with the failed insert; the fact table, emptied and committed
\* by clear_table before the loads, is empty after its load failed.
C20_FailedLoadRollsBackItsDelete ==
    Full =>
        \A t \in failedTables :
            wh[t] = IF t = "sales" THEN {} ELSE whStart[t]

\* C20 witness: the load of a dimension that held rows issued its delete,
\* failed at the insert, and the rows are in place.
C20_Witness ==
    /\ Full
    /\ \E t \in Dims \cap failedTables :
          /\ whStart[t] # {}
          /\ IssuedAt(Cmd("insert", t)) # {}
          /\ wh[t] = whStart[t]

\* C20 witness for the fact table: it held rows when the run started, its
\* load failed at the insert, and it is empty.
C20_WitnessFact ==
    /\ Full
    /\ "sales" \in failedTables
    /\ whStart["sales"] # {}
    /\ IssuedAt(Cmd("insert", "sales")) # {}
    /\ wh["sales"] = {}

\* The tables a full-mode run has loaded so far without a failure.
LoadedTables ==
    LET n == IF pc = "full_load" THEN step - 1
             ELSE IF Full /\ pc \in {"full_maint", "done"} THEN Len(FullLoadOrder)
             ELSE 0
    IN  {FullLoadOrder[i] : i \in 1..n} \ failedTables

\* C21: in a full-mode run of the entry point without the force flag, once the
\* preprocessing step is over, the raw files were left unread exactly when all
\* four snapshot files existed at the start; and in that case no snapshot was
\* written or changed, and every table loaded holds the rows its snapshot file
\* held at the start.
C21_IdempotentSkip ==
    (Full /\ detect \in {"ok", "failed"} /\ ~force /\ pc \notin {"idle", "full_prep"}) =>
        /\ ("read_raw" \notin io) <=> ({"calendar", "products", "sales", "stores"} \subseteq existsStart)
        /\ "read_raw" \notin io =>
              /\ "write_snapshot" \notin io
              /\ ~preprocessed
              /\ \A i \in 1..Len(issued) : issued[i].op # "write"
              /\ cleaned = cleanedStart
              /\ cleanedExists = existsStart
              /\ \A t \in LoadedTables : wh[t] = RowsOf(cleanedStart[t])

\* C21 witness: such a run skipped the preprocessing and loaded rows from the
\* snapshots it found.
C21_Witness ==
    /\ Full
    /\ detect \in {"ok", "failed"}
    /\ ~force
    /\ pc = "done"
    /\ "read_raw" \notin io
    /\ \E t \in LoadedTables : wh[t] # {} /\ wh[t] = RowsOf(cleanedStart[t])

\* C22 (the claim as stated): whatever runs have taken place, no key value
\* appears twice in a cleaned snapshot (the raw tables have unique keys, the
\* warehouse and the snapshot directory were empty at first).
C22_SnapshotKeysUnique ==
    \A t \in Tables : ~HasDuplicateKeys(cleaned[t])

\* C23 (the claim as stated): when a run, in either mode, has executed both
\* maintenance scripts without error, their effects are durable in the
\* warehouse once the run has ended.
C23_MaintenanceCommitted ==
    (pc = "done" /\ maintFailed = 0) => viewsCommitted

\* C24: an incremental run issues no delete, and at every point of it, and so
\* however it ends, every key a warehouse table held when the run started is
\* still in that table, in the committed warehouse and in the transaction.
C24_IncrementalKeepsKeys ==
    Incremental =>
        /\ \A i \in 1..Len(issued) : issued[i].op # "delete"
        /\ \A t \in Tables :
              /\ KeysOfSet(whStart[t]) \subseteq KeysOfSet(wh[t])
              /\ KeysOfSet(whStart[t]) \subseteq KeysOfSet(tx[t])

\* C24 witness: an incremental run over a warehouse that held rows has ended
\* after adding keys to a table.
C24_Witness ==
    /\ Incremental
    /\ Ended
    /\ \E t \in Tables :
          /\ whStart[t] # {}
          /\ KeysOfSet(whStart[t]) # KeysOfSet(wh[t])
          /\ KeysOfSet(whStart[t]) \subseteq KeysOfSet(wh[t])

\* C25: whenever a run has called the raw loader, the call did not raise,
\* attempted each of the five named files once, and returned exactly the
\* tables whose file is present and parses, each with the rows of its file; a
\* table that failed is absent from the result.
C25_RawLoaderNeverRaises ==
    "read_raw" \in io =>
        /\ ~RawLoad.raised
        /\ Len(RawLoad.attempted) = 5
        /\ RowsOf(RawLoad.attempted) = RawNames
        /\ DOMAIN load_raw_datasets = rawPresent
        /\ \A n \in rawPresent : load_raw_datasets[n] = raw[n]
        /\ \A n \in RawNames \ rawPresent : n \notin DOMAIN load_raw_datasets

\* C25 witness: a run called the loader with a raw file missing and the
\* other four were returned.
C25_Witness ==
    /\ "read_raw" \in io
    /\ rawPresent # RawNames
    /\ DOMAIN load_raw_datasets = rawPresent
    /\ rawPresent # {}

====
